---------------------------- MODULE Spec2Model ----------------------------
(***************************************************************************)
(* A model of src/lecroy_python3.py: the LeCroy class, a client of the    *)
(* VICP framing protocol over a TCP socket.                                *)
(*                                                                         *)
(* The socket is a pair of byte sequences: `outbound` holds the bytes the  *)
(* client has written, `inbound` the bytes the instrument has sent and the *)
(* client has not yet received.  Every call of self.s.send and self.s.recv *)
(* is one step, together with the statements that follow it up to the next *)
(* call; the call of a method and the start of each self.send(...) inside  *)
(* a method are steps of their own.  A send may accept fewer bytes than    *)
(* offered and a recv may return fewer bytes than requested (at least      *)
(* one): both are choices of the environment.  A recv on an empty buffer   *)
(* blocks: no step.  The peer keeps the connection open.                   *)
(*                                                                         *)
(* Bytes and code points are naturals; a str and a bytes object are        *)
(* sequences of them.                                                      *)
(***************************************************************************)
EXTENDS Integers, Sequences, FiniteSets, TLC

(***************************************************************************)
(* Bounds of the model.                                                    *)
(***************************************************************************)
\* longest message given to a stand-alone send
MaxMsgLen == 3
\* most frames the instrument sends in answer to a text query
MaxFrames == 2
\* most data frames of a waveform answer
MaxDataFrames == 2

(***************************************************************************)
(* Program constants.                                                      *)
(***************************************************************************)
LECROY_EOI_FLAG == 1
LECROY_DATA_FLAG == 128
\* sizeof(LECROY_TCP_HEADER): c_ubyte, c_ubyte * 3, c_int
HeaderSize == 8
\* self.s.recv(38): "two data lines with headers 2*(8+11) characters"
PreambleSize == 38

(***************************************************************************)
(* Sequence helpers.                                                       *)
(***************************************************************************)
Range(f) == {f[i] : i \in DOMAIN f}

Min(a, b) == IF a < b THEN a ELSE b

\* all sequences over S of length 0..n
SeqsUpTo(S, n) == UNION {[1..k -> S] : k \in 0..n}

\* Python's b[i:j] on a sequence: negative indices count from the end and
\* both ends are clamped to 0..len(b)
PyIndex(i, L) == IF i < 0 THEN (IF i + L < 0 THEN 0 ELSE i + L)
                 ELSE (IF i > L THEN L ELSE i)

PySlice(b, i, j) ==
    LET lo == PyIndex(i, Len(b))
        hi == PyIndex(j, Len(b))
    IN  IF lo >= hi THEN <<>> ELSE SubSeq(b, lo + 1, hi)

\* b[i:]
PySliceFrom(b, i) == SubSeq(b, PyIndex(i, Len(b)) + 1, Len(b))

(***************************************************************************)
(* The header: LECROY_TCP_HEADER, socket.htonl / ntohl, struct.unpack.     *)
(* A 32-bit value is held as the four bytes of its image in the host's     *)
(* memory.  The host is little-endian: the least significant byte comes    *)
(* first, and htonl / ntohl reverse the four bytes of their argument.      *)
(***************************************************************************)
\* the image of a length (below 2^31) as a 32-bit value of the host
NativeBytes(x) ==
    << x % 256, (x \div 256) % 256, (x \div 65536) % 256, (x \div 16777216) % 256 >>

\* TLC's integers end at 2^31 - 1.  A Python int from 2^31 to 2^32 - 1 is held
\* as 2^31 - 1: the program only compares a received length with the length
\* of a buffer and offers it to recv, and every buffer here is far shorter.
Huge == 127 * 16777216 + 16777215

\* the Python int of a 32-bit image
NativeUInt(b) ==
    IF b[4] >= 128 THEN Huge
    ELSE b[1] + 256 * b[2] + 65536 * b[3] + 16777216 * b[4]

\* socket.htonl and socket.ntohl on a little-endian host, on images
SwapBytes32(b) == << b[4], b[3], b[2], b[1] >>

htonl(b) == SwapBytes32(b)

\* a variant of ntohl that leaves the bytes in the order received
ntohlNone(b) == b

ntohl(b) == SwapBytes32(b)

\* the bytes of LECROY_TCP_HEADER(flags, (1, 0, 0), value): a c_ubyte, three
\* c_ubyte and a c_int, which keeps the 32 bits of the value it is given
HeaderStruct(flags, image) == << flags % 256, 1, 0, 0 >> \o image

\* the bytes of LECROY_TCP_HEADER(flags, (1, 0, 0), htonl(msglen))
HeaderBytes(flags, msglen) == HeaderStruct(flags, htonl(NativeBytes(msglen)))

\* __translate: struct.unpack("B3BI", data) needs exactly 8 bytes
translateOk(data) == Len(data) = HeaderSize

\* struct.unpack("B3BI", data): four bytes and the image of an unsigned int
unpack(data) == << data[1], data[2], data[3], data[4], SubSeq(data, 5, 8) >>

\* the image of socket.ntohl(headdata[-1])
datalenImage(data) == ntohl(unpack(data)[5])

\* headdata[0] and socket.ntohl(headdata[-1])
translate(data) ==
    [eofflag |-> unpack(data)[1], datalen |-> NativeUInt(datalenImage(data))]

(***************************************************************************)
(* str.encode('ascii') and bytes.decode('ascii').                          *)
(***************************************************************************)
IsAscii(b) == \A i \in DOMAIN b : b[i] < 128


(***************************************************************************)
(* The state.                                                              *)
(*   CONNECTED, s     the session's flag and its socket: "none" before the *)
(*                    first connect (the attribute does not exist),        *)
(*                    "unconnected" after a connect that failed, "open",   *)
(*                    "closed"                                             *)
(*   outbound         the bytes written to the stream, in order            *)
(*   inbound          the bytes sent by the instrument and not yet         *)
(*                    received                                             *)
(*   op, pc, ret      the public operation running, the position in it and *)
(*                    the position send returns to                         *)
(*   channel, block   the arguments of the operation running               *)
(*   message, byteindx            locals of send                           *)
(*   flg, alen, dtstr             locals of readAll and of the data loops  *)
(*   rethead, exp_bytes, dta, dta1   locals of getDataBytes / getDataWords *)
(*   result           how the operation ended: returned value or exception *)
(*   printed          the distinct lines print() has written               *)
(* History of the environment, read by no step of the program:             *)
(*   frames           the frames the instrument has sent, in order         *)
(*   short            the kinds of recv call that returned fewer bytes     *)
(*                    than requested                                       *)
(*   partial          the kinds of send call that accepted fewer bytes     *)
(*                    than offered                                         *)
(*   pending          queries written whose answer has not been read to    *)
(*                    its last frame                                       *)
(*   asked, nasked    the queries written in full that the instrument has  *)
(*                    not yet answered to the last frame, oldest first,    *)
(*                    and the number of queries written so far             *)
(*   returns, clean   the number of operations the caller has taken the    *)
(*                    result of, and whether at the last of these moments  *)
(*                    the stream held nothing unread and no query was      *)
(*                    unanswered                                           *)
(*   earlier          the second value (VERTICAL_GAIN or HORIZ_OFFSET)     *)
(*                    parsed by the operation whose result the caller took *)
(*                    last, when it was getVertFloats or getHorData and    *)
(*                    returned                                             *)
(*   dropped          the number of sockets that were open when connect    *)
(*                    put another socket in their place in self.s          *)
(*   code             what the last connect or disconnect returned (-2 or  *)
(*                    None) or raised, until an operation is called        *)
(* The environment and the locals of getVertFloats and getHorData:         *)
(*   exact            TRUE when the stream hands every recv all the bytes  *)
(*                    asked for and takes every send whole                 *)
(*   word_values      the samples getDataWords returned to getVertFloats   *)
(*   inspected        the values parsed from the answers read so far, in   *)
(*                    the order of the queries (VOS, VG, VERTUNIT, or      *)
(*                    HORUNIT, HOS, HInV)                                  *)
(* The header codec on its own (the round trip of a header):               *)
(*   hdr              a flags byte and a length, the header built from     *)
(*                    them and what __translate makes of that header       *)
(***************************************************************************)
VARIABLES CONNECTED, s, outbound, inbound, op, pc, ret, channel, block,
          message, byteindx, flg, alen, dtstr,
          rethead, exp_bytes, dta, dta1, result, printed,
          frames, short, partial, pending,
          hdr, exact, word_values, inspected, asked, nasked, returns, clean, earlier,
          dropped, code

conn == << CONNECTED, s >>
args == << channel, block >>
sendv == << message, byteindx >>
readv == << flg, alen, dtstr >>
datav == << rethead, exp_bytes, dta, dta1 >>
hist == << frames, short, partial, pending >>
cal == << word_values, inspected >>
instr == << asked, nasked >>
calls == << returns, clean, earlier >>
ext == << hdr, exact, cal, instr, calls, dropped, code >>
vars == << CONNECTED, s, outbound, inbound, op, pc, ret, channel, block,
           message, byteindx, flg, alen, dtstr,
           rethead, exp_bytes, dta, dta1, result, printed,
           frames, short, partial, pending,
           hdr, exact, word_values, inspected, asked, nasked, returns, clean, earlier,
           dropped, code >>

\* how an operation ends
NoResult == [kind |-> "running", flag |-> 0, data |-> << >>]

Returned(f, d) == [kind |-> "returned", flag |-> f, data |-> d]

Raised(e, d) == [kind |-> e, flag |-> 0, data |-> d]

\* the exception a call on self.s raises when the socket cannot carry it:
\* no attribute s before the first connect, a socket error otherwise
StreamError == IF s = "none" THEN "AttributeError" ELSE "OSError"

(***************************************************************************)
(* __init__                                                                *)
(***************************************************************************)
Start ==
    /\ CONNECTED = FALSE
    /\ s = "none"
    /\ outbound = << >>
    /\ inbound = << >>
    /\ op = "idle"
    /\ pc = "idle"
    /\ ret = "done"
    /\ channel = << >>
    /\ block = << >>
    /\ message = << >>
    /\ byteindx = 0
    /\ flg = 0
    /\ alen = 0
    /\ dtstr = << >>
    /\ rethead = << >>
    /\ exp_bytes = 0
    /\ dta = << >>
    /\ dta1 = << >>
    /\ result = NoResult
    /\ printed = {}
    /\ frames = << >>
    /\ short = {}
    /\ partial = {}
    /\ pending = 0
    /\ word_values = << >>
    /\ inspected = << >>
    /\ asked = << >>
    /\ nasked = 0
    /\ returns = 0
    /\ clean = TRUE
    /\ earlier = << >>
    /\ dropped = 0
    /\ code = NoResult

\* no header is under study
NoHeader == [stage |-> "none"]

\* a stream that may split what is sent and received
Init ==
    /\ Start
    /\ hdr = NoHeader
    /\ exact = FALSE

\* a stream that hands over every recv and takes every send in full
InitExact ==
    /\ Start
    /\ hdr = NoHeader
    /\ exact = TRUE

(***************************************************************************)
(* connect and disconnect.  socket.connect either succeeds or raises; the  *)
(* new socket is stored in self.s before it is connected.                  *)
(***************************************************************************)
\* a variant of connect without the test of CONNECTED
connectAnew(ok) ==
    /\ pc = "idle"
    /\ dropped' = IF s = "open" THEN dropped + 1 ELSE dropped
    /\ s' = IF ok THEN "open" ELSE "unconnected"
    /\ CONNECTED' = (CONNECTED \/ ok)
    /\ code' = IF ok THEN Returned(0, << >>) ELSE Raised("OSError", << >>)
    /\ UNCHANGED << hdr, exact, cal, instr, calls, outbound, inbound, op, args, pc, ret,
                    sendv, readv, datav, result, printed, hist >>

\* lines 74-83
connect(ok) ==
    /\ pc = "idle"
    /\ IF CONNECTED
       THEN /\ printed' = printed \cup {"Already connected!"}
            /\ code' = Returned(0, << -2 >>)
            /\ UNCHANGED << conn, dropped >>
       ELSE /\ dropped' = IF s = "open" THEN dropped + 1 ELSE dropped
            /\ s' = IF ok THEN "open" ELSE "unconnected"
            /\ CONNECTED' = ok
            /\ code' = IF ok THEN Returned(0, << >>) ELSE Raised("OSError", << >>)
            /\ UNCHANGED printed
    /\ UNCHANGED << hdr, exact, cal, instr, calls, outbound, inbound, op, args, pc, ret,
                    sendv, readv, datav, result, hist >>

\* lines 88-92
disconnect ==
    /\ pc = "idle"
    /\ IF ~CONNECTED
       THEN /\ code' = Returned(0, << -2 >>)
            /\ UNCHANGED conn
       ELSE /\ s' = "closed"
            /\ CONNECTED' = FALSE
            /\ code' = Returned(0, << >>)
    /\ UNCHANGED << hdr, exact, cal, instr, calls, dropped, outbound, inbound, op, args,
                    pc, ret, sendv, readv, datav, result, printed, hist >>

(***************************************************************************)
(* send(message).  The header goes out in one self.s.send call, whose      *)
(* count is compared with sizeof(head); the message goes out in a loop     *)
(* that offers the unsent rest until the stream has accepted all of it.    *)
(***************************************************************************)
\* self.LECROY_DATA_FLAG | self.LECROY_EOI_FLAG: the bits are disjoint
SendFlags == LECROY_DATA_FLAG + LECROY_EOI_FLAG

\* a message with '?' is a query: the instrument answers it
IsQuery(m) == 63 \in Range(m)

\* the position after send has returned
AfterSend ==
    /\ pc' = ret
    /\ result' = IF ret = "done" THEN Returned(0, << >>) ELSE result
    /\ pending' = IF IsQuery(message) THEN pending + 1 ELSE pending
    /\ asked' = IF IsQuery(message) THEN Append(asked, message) ELSE asked
    /\ nasked' = IF IsQuery(message) THEN nasked + 1 ELSE nasked

\* an exception leaves the operation
Raise(e, d) ==
    /\ pc' = "done"
    /\ result' = Raised(e, d)

\* what one self.s.send of n bytes may return: every count from 1 to n, or n
\* alone on a stream that takes every send whole
SendCounts(n) == IF exact THEN {n} ELSE 1..n

\* the header is written in full exactly when the count equals its size
HeaderWritten(written) == written = HeaderSize

\* lines 101-114: the header write, the check of its count, message.encode
SendHeader ==
    /\ pc = "send_head"
    /\ IF s # "open"
       THEN /\ Raise(StreamError, << >>)
            /\ UNCHANGED << outbound, byteindx, pending, instr, partial >>
       ELSE \E written \in SendCounts(HeaderSize) :
            LET head == HeaderBytes(SendFlags, Len(message))
            IN  /\ outbound' = outbound \o SubSeq(head, 1, written)
                /\ partial' = IF written < HeaderSize
                              THEN partial \cup {"header"} ELSE partial
                /\ byteindx' = 0
                /\ IF ~HeaderWritten(written)
                   THEN \* the RuntimeError's text names tmp, which is not defined
                        Raise("NameError", << >>) /\ UNCHANGED << pending, instr >>
                   ELSE IF ~IsAscii(message)
                   THEN Raise("UnicodeEncodeError", << >>) /\ UNCHANGED << pending, instr >>
                   ELSE IF 0 < Len(message)
                   THEN pc' = "send_body" /\ UNCHANGED << result, pending, instr >>
                   ELSE AfterSend
    /\ UNCHANGED << hdr, exact, cal, calls, dropped, code, conn, inbound, op, args, ret,
                    message, readv, datav, printed, frames, short >>

\* the new byteindx after the stream has accepted xferd bytes
Advance(indx, xferd) == indx + xferd

\* a variant of Offered that offers the whole message again
OfferedWhole(msgbytes, indx) == msgbytes

\* the bytes offered to the stream: msgbytes[byteindx:]
Offered(msgbytes, indx) == PySliceFrom(msgbytes, indx)

\* lines 115-119: one turn of the write loop
SendBody ==
    /\ pc = "send_body"
    /\ \E xferd \in SendCounts(Len(Offered(message, byteindx))) :
        /\ outbound' = outbound \o SubSeq(Offered(message, byteindx), 1, xferd)
        /\ partial' = IF xferd < Len(Offered(message, byteindx))
                      THEN partial \cup {"message"} ELSE partial
        /\ byteindx' = Advance(byteindx, xferd)
        /\ IF byteindx' < Len(message)
           THEN UNCHANGED << pc, result, pending, instr >>
           ELSE AfterSend
    /\ UNCHANGED << hdr, exact, cal, calls, dropped, code, conn, inbound, op, args, ret,
                    message, readv, datav, printed, frames, short >>

\* a caller's send(m)
CallSend(m) ==
    /\ pc = "idle"
    /\ op' = "send"
    /\ message' = m
    /\ pc' = "send_head"
    /\ ret' = "done"
    /\ code' = NoResult
    /\ UNCHANGED << hdr, exact, cal, instr, calls, dropped, args, conn, outbound,
                    inbound, byteindx, readv, datav, result,
                    printed, hist >>

(***************************************************************************)
(* Stand-alone send: the messages are the strings over 'A', '?' and 'e     *)
(* acute' (not ASCII) of length 0..MaxMsgLen.                              *)
(***************************************************************************)
MsgChars == {65, 63, 233}

Messages == SeqsUpTo(MsgChars, MaxMsgLen)

NextSend ==
    \/ \E ok \in BOOLEAN : connect(ok)
    \/ \E m \in Messages : CallSend(m)
    \/ SendHeader
    \/ SendBody

SpecSend == Init /\ [][NextSend]_vars


(***************************************************************************)
(* The instrument.  It frames every payload as VICP does: the flags, three *)
(* reserved bytes, the payload's length as a big-endian 32-bit number, the *)
(* payload.  Which frames it sends is the environment's choice; a frame    *)
(* is put on the stream when the client waits in a recv with nothing to    *)
(* receive (when the bytes arrived is not observable by the client).       *)
(***************************************************************************)
BigEndian32(n) ==
    << (n \div 16777216) % 256, (n \div 65536) % 256, (n \div 256) % 256, n % 256 >>

WireFrame(f) == << f.flags, 1, 0, 0 >> \o BigEndian32(Len(f.payload)) \o f.payload

\* the flags of the frames of an answer: DATA, DATA | EOI, EOI, and DATA | SRQ
FrameFlags == {128, 129, 1, 136}

\* the payloads of the frames of a text answer: empty, "A", "B\n", and one
\* byte that is not ASCII
TextPayloads == {<< >>, << 65 >>, << 66, 10 >>, << 200 >>}

\* the positions at which the client is inside a recv call
RecvLabels == {"ra_header", "ra_payload", "gd_preamble", "gd_header", "gd_end", "gd_data"}

\* 1 when the frame just received ends an answer that was pending
AnswerRead(flags) == IF flags # LECROY_DATA_FLAG /\ pending > 0 THEN 1 ELSE 0

\* the number of bytes the recv call at the current position asks for
Wanted ==
    IF pc \in {"ra_header", "gd_header"} THEN HeaderSize
    ELSE IF pc = "gd_preamble" THEN PreambleSize
    ELSE IF pc \in {"ra_payload", "gd_end"} THEN alen
    ELSE IF pc = "gd_data" THEN alen - Len(dta1)
    ELSE 0

\* the client waits in a recv: it asks for bytes and there are none (on a
\* stream that hands over every recv in full: fewer than it asks for)
Blocked ==
    /\ pc \in RecvLabels /\ s = "open" /\ Wanted > 0
    /\ IF exact THEN Len(inbound) < Wanted ELSE inbound = << >>

InstrumentSendsText ==
    /\ op = "readAll"
    /\ Blocked
    /\ Len(frames) < MaxFrames
    /\ \E fl \in FrameFlags, pl \in TextPayloads :
        LET f == [flags |-> fl, payload |-> pl]
        IN  /\ frames' = Append(frames, f)
            /\ inbound' = inbound \o WireFrame(f)
    /\ UNCHANGED << ext, conn, outbound, op, args, pc, ret, sendv, readv, datav, result,
                    printed, short, partial, pending >>

(***************************************************************************)
(* The command strings, as their ASCII codes.                              *)
(***************************************************************************)
\* "CFMT DEF9,BYTE,BIN"
CmdFormatByte ==
    << 67, 70, 77, 84, 32, 68, 69, 70, 57, 44, 66, 89, 84, 69, 44, 66, 73, 78 >>

\* "CFMT DEF9,WORD,BIN"
CmdFormatWord ==
    << 67, 70, 77, 84, 32, 68, 69, 70, 57, 44, 87, 79, 82, 68, 44, 66, 73, 78 >>

\* "{}:WF? {}".format(channel, block)
CmdWaveform(ch, bl) == ch \o << 58, 87, 70, 63, 32 >> \o bl

\* "CORD LO"
CmdOrderLow == << 67, 79, 82, 68, 32, 76, 79 >>

\* "C1", "C2" and "DAT1"
Channels == {<< 67, 49 >>, << 67, 50 >>}

Blocks == {<< 68, 65, 84, 49 >>}

(***************************************************************************)
(* The block prefix: rethead[-11:-9] != b'#9' and                          *)
(* int(rethead[-9:].decode('ascii').lstrip("0")).                          *)
(***************************************************************************)
\* b'#9'
BlockMarker == << 35, 57 >>

IsDigit(c) == c >= 48 /\ c <= 57

\* str.lstrip("0")
RECURSIVE LStripZero(_)
LStripZero(str) ==
    IF str # << >> /\ str[1] = 48 THEN LStripZero(Tail(str)) ELSE str

\* int(str) of a string of decimal digits; int('') and a string with any
\* other character raise ValueError (a sign, blanks around the number and
\* '_' between digits, which int also takes, are in no string of the model)
IntOk(str) == str # << >> /\ \A i \in DOMAIN str : IsDigit(str[i])

RECURSIVE IntValue(_)
IntValue(str) ==
    IF str = << >> THEN 0
    ELSE 10 * IntValue(SubSeq(str, 1, Len(str) - 1)) + (str[Len(str)] - 48)

\* the string int() is given
CountText(head) == LStripZero(PySliceFrom(head, -9))

\* the test of line 262
MarkerMissing(head) == PySlice(head, -11, -9) # BlockMarker

\* a variant of OddCount that lets every count pass
OddCountNever(n) == FALSE

\* the test of line 267
OddCount(n) == (n % 2) # 0

(***************************************************************************)
(* Text of an answer: str.split(sep)[-1], str.split(sep)[0], str.strip     *)
(* and float, as getVertFloats and getHorData use them (lines 310-318 and  *)
(* 340-346).                                                               *)
(***************************************************************************)
\* the first position at which sep stands in str, 0 when it does not
Find(str, sep) ==
    LET at == {i \in 1..(Len(str) - Len(sep) + 1) :
                    SubSeq(str, i, i + Len(sep) - 1) = sep}
    IN  IF at = {} THEN 0 ELSE CHOOSE i \in at : \A j \in at : i <= j

\* str.split(sep)[0]: what stands before the first sep
SplitFirst(str, sep) ==
    IF Find(str, sep) = 0 THEN str ELSE SubSeq(str, 1, Find(str, sep) - 1)

\* str.split(sep)[-1]: what stands after the last sep, the separators being
\* found from the left, none overlapping another
RECURSIVE SplitLast(_, _)
SplitLast(str, sep) ==
    IF Find(str, sep) = 0 THEN str
    ELSE SplitLast(SubSeq(str, Find(str, sep) + Len(sep), Len(str)), sep)

RECURSIVE LStrip(_, _)
LStrip(str, chars) ==
    IF str # << >> /\ str[1] \in chars THEN LStrip(Tail(str), chars) ELSE str

RECURSIVE RStrip(_, _)
RStrip(str, chars) ==
    IF str # << >> /\ str[Len(str)] \in chars
    THEN RStrip(SubSeq(str, 1, Len(str) - 1), chars) ELSE str

\* str.strip(chars)
Strip(str, chars) == RStrip(LStrip(str, chars), chars)

\* ':', '"\n' and "Unit Name = "
Colon == << 58 >>

QuoteNewline == << 34, 10 >>

UnitMarker ==
    << 85, 110, 105, 116, 32, 78, 97, 109, 101, 32, 61, 32 >>

\* r2.split(":")[-1].split('"\n')[0].strip(" ")
FloatField(r2) == Strip(SplitFirst(SplitLast(r2, Colon), QuoteNewline), {32})

\* r2.split("Unit Name = ")[-1].split('"\n')[0]
UnitField(r2) == SplitFirst(SplitLast(r2, UnitMarker), QuoteNewline)

(***************************************************************************)
(* float(str).  A number is held as the decimal m * 10^e, with m not a     *)
(* multiple of 10 (0 is m = 0, e = 0).  float takes blanks around the      *)
(* number, a sign, digits with at most one point and at least one digit,   *)
(* and an exponent; it raises ValueError for other strings ("inf", "nan"   *)
(* and '_' between digits, which float also takes, are in no string of     *)
(* the model).  A float64 holds the numbers of the model exactly: they are *)
(* multiples of 0.5 far below 2^53, and so are their products with a       *)
(* sample and the differences of those.                                    *)
(***************************************************************************)
\* the characters float strips: space, \t, \n, \v, \f, \r
Whitespace == {32, 9, 10, 11, 12, 13}

Signs == {43, 45}

\* the text without its sign
Unsigned(str) == IF str # << >> /\ str[1] \in Signs THEN Tail(str) ELSE str

Negative(str) == str # << >> /\ str[1] = 45

\* the number's mantissa and exponent texts: before and after 'e' or 'E'
ExpAt(str) == IF Find(str, << 101 >>) # 0 THEN Find(str, << 101 >>)
              ELSE Find(str, << 69 >>)

MantissaText(str) == IF ExpAt(str) = 0 THEN str ELSE SubSeq(str, 1, ExpAt(str) - 1)

ExponentText(str) == SubSeq(str, ExpAt(str) + 1, Len(str))

\* the digits of the mantissa before and after the point
WholeDigits(str) == SplitFirst(Unsigned(MantissaText(str)), << 46 >>)

FractionDigits(str) ==
    IF Find(MantissaText(str), << 46 >>) = 0 THEN << >>
    ELSE SubSeq(MantissaText(str), Find(MantissaText(str), << 46 >>) + 1,
                Len(MantissaText(str)))

AllDigits(str) == \A i \in DOMAIN str : IsDigit(str[i])

FloatOk(text) ==
    LET str == Strip(text, Whitespace)
    IN  /\ AllDigits(WholeDigits(str)) /\ AllDigits(FractionDigits(str))
        /\ WholeDigits(str) \o FractionDigits(str) # << >>
        /\ ExpAt(str) # 0 =>
            /\ Unsigned(ExponentText(str)) # << >>
            /\ AllDigits(Unsigned(ExponentText(str)))

\* m * 10^e with m not a multiple of 10
RECURSIVE Decimal(_, _)
Decimal(m, e) ==
    IF m = 0 THEN [m |-> 0, e |-> 0]
    ELSE IF m % 10 = 0 THEN Decimal(m \div 10, e + 1)
    ELSE [m |-> m, e |-> e]

FloatValue(text) ==
    LET str == Strip(text, Whitespace)
        digits == IntValue(WholeDigits(str) \o FractionDigits(str))
        power == IF ExpAt(str) = 0 THEN 0
                 ELSE IF Negative(ExponentText(str))
                      THEN 0 - IntValue(Unsigned(ExponentText(str)))
                      ELSE IntValue(Unsigned(ExponentText(str)))
    IN  Decimal(IF Negative(str) THEN 0 - digits ELSE digits,
                power - Len(FractionDigits(str)))

\* a float times a sample, and the difference of two floats
Times(v, n) == Decimal(v.m * n, v.e)

Minus(a, b) ==
    LET e == Min(a.e, b.e)
    IN  Decimal(a.m * 10 ^ (a.e - e) - b.m * 10 ^ (b.e - e), e)

\* a variant of Scale that adds the offset
ScalePlus(VG, raw, VOS) == Minus(Times(VG, raw), Decimal(0 - VOS.m, VOS.e))

\* line 320, for one sample: VG * raw - VOS
Scale(VG, raw, VOS) == Minus(Times(VG, raw), VOS)

\* line 320: VG*np.array(word_values, dtype=np.float64) - VOS
Calibrate(VG, words, VOS) == [i \in 1..Len(words) |-> Scale(VG, words[i], VOS)]

(***************************************************************************)
(* getVertFloats and getHorData: the INSPECT? queries, in the order of the *)
(* source, each a self.send followed by a self.readAll whose text is       *)
(* parsed at once.                                                         *)
(***************************************************************************)
\* the names of the fields asked for
VERTICAL_OFFSET ==
    << 86, 69, 82, 84, 73, 67, 65, 76, 95, 79, 70, 70, 83, 69, 84 >>

VERTICAL_GAIN ==
    << 86, 69, 82, 84, 73, 67, 65, 76, 95, 71, 65, 73, 78 >>

VERTUNIT ==
    << 86, 69, 82, 84, 85, 78, 73, 84 >>

HORUNIT ==
    << 72, 79, 82, 85, 78, 73, 84 >>

HORIZ_OFFSET ==
    << 72, 79, 82, 73, 90, 95, 79, 70, 70, 83, 69, 84 >>

HORIZ_INTERVAL ==
    << 72, 79, 82, 73, 90, 95, 73, 78, 84, 69, 82, 86, 65, 76 >>

\* a variant of Fields that asks for the gain before the offset
FieldsGainFirst(o) ==
    IF o = "getVertFloats"
    THEN << [name |-> VERTICAL_GAIN, float |-> TRUE],
            [name |-> VERTICAL_OFFSET, float |-> TRUE],
            [name |-> VERTUNIT, float |-> FALSE] >>
    ELSE << [name |-> HORUNIT, float |-> FALSE],
            [name |-> HORIZ_INTERVAL, float |-> TRUE],
            [name |-> HORIZ_OFFSET, float |-> TRUE] >>

\* the fields an operation asks for, in the order of its queries, and
\* whether the answer is parsed by float
Fields(o) ==
    IF o = "getVertFloats"
    THEN << [name |-> VERTICAL_OFFSET, float |-> TRUE],
            [name |-> VERTICAL_GAIN, float |-> TRUE],
            [name |-> VERTUNIT, float |-> FALSE] >>
    ELSE << [name |-> HORUNIT, float |-> FALSE],
            [name |-> HORIZ_OFFSET, float |-> TRUE],
            [name |-> HORIZ_INTERVAL, float |-> TRUE] >>

\* '{}:INSPECT? "NAME"'.format(channel)
CmdInspect(ch, name) ==
    ch \o
        << 58, 73, 78, 83, 80, 69, 67, 84, 63, 32, 34 >>
    \o name \o << 34 >>

\* what the operation returns once its three answers are parsed:
\* (VERTUNIT, VG * word_values - VOS), or (HORUNIT, HOS, HInV)
Outcome(o, words, values) ==
    IF o = "getVertFloats"
    THEN << values[3], Calibrate(values[2], words, values[1]) >>
    ELSE << values[1], values[2], values[3] >>

\* the operations that read their answers with readAll and parse them
Inspectors == {"getVertFloats", "getHorData"}

\* line 306: word_values = np.array(self.getDataWords(...)), the commands of
\* getDataWords first
CallGetVertFloats(ch, bl) ==
    /\ pc = "idle"
    /\ op' = "getVertFloats"
    /\ channel' = ch
    /\ block' = bl
    /\ message' = CmdFormatWord
    /\ pc' = "send_head"
    /\ ret' = "gd_wf"
    /\ word_values' = << >>
    /\ inspected' = << >>
    /\ code' = NoResult
    /\ UNCHANGED << hdr, exact, instr, calls, dropped, conn, outbound, inbound,
                    byteindx, readv, datav, result, printed, hist >>

CallGetHorData(ch) ==
    /\ pc = "idle"
    /\ op' = "getHorData"
    /\ channel' = ch
    /\ pc' = "inspect"
    /\ word_values' = << >>
    /\ inspected' = << >>
    /\ code' = NoResult
    /\ UNCHANGED << hdr, exact, instr, calls, dropped, conn, outbound, inbound,
                    block, ret, sendv, readv, datav, result, printed, hist >>

\* lines 308, 312, 316 and 338, 341, 344: self.send of the next query
SendInspect ==
    /\ pc = "inspect"
    /\ message' = CmdInspect(channel, Fields(op)[Len(inspected) + 1].name)
    /\ pc' = "send_head"
    /\ ret' = "ra_call"
    /\ UNCHANGED << ext, conn, outbound, inbound, op, args, byteindx, readv, datav,
                    result, printed, hist >>

\* lines 309, 313, 317 and 339, 342, 345: r1, r2 = self.readAll()
InnerReadAll ==
    /\ pc = "ra_call"
    /\ dtstr' = << >>
    /\ pc' = "ra_header"
    /\ UNCHANGED << ext, conn, outbound, inbound, op, args, ret, sendv, flg, alen,
                    datav, result, printed, hist >>

\* readAll returns (flg, dtstr): to the caller of the operation, or to
\* getVertFloats / getHorData, which parse the text (float raises
\* ValueError) and go on to the next query or to their own return
ReadAllReturns(f, text) ==
    IF op \notin Inspectors
    THEN /\ pc' = "done"
         /\ result' = Returned(f, text)
         /\ UNCHANGED inspected
    ELSE LET field == Fields(op)[Len(inspected) + 1]
         IN  IF field.float /\ ~FloatOk(FloatField(text))
             THEN /\ Raise("ValueError", << >>)
                  /\ UNCHANGED inspected
             ELSE LET value == IF field.float THEN FloatValue(FloatField(text))
                               ELSE UnitField(text)
                      values == Append(inspected, value)
                  IN  /\ inspected' = values
                      /\ IF Len(values) < Len(Fields(op))
                         THEN pc' = "inspect" /\ UNCHANGED result
                         ELSE /\ pc' = "done"
                              /\ result' = Returned(0, Outcome(op, word_values, values))

(***************************************************************************)
(* __getHeader and readAll.                                                *)
(***************************************************************************)
\* what one self.s.recv(n) may return: the first k bytes of the stream, for
\* every k from 1 to n that the stream holds; nothing when n is 0; on a
\* stream that hands over every recv in full, n bytes once it holds them
RecvCounts(n) ==
    IF n = 0 THEN {0}
    ELSE IF exact THEN (IF Len(inbound) >= n THEN {n} ELSE {})
    ELSE 1..Min(n, Len(inbound))

\* a variant of MoreFrames that never goes on to another frame
MoreFramesNever(flags) == FALSE

\* a variant of MoreFrames that goes on to another frame whatever the flags
MoreFramesAlways(flags) == TRUE

\* a variant of MoreFrames that looks at the bit 0x80 alone
MoreFramesBit(flags) == (flags \div LECROY_DATA_FLAG) % 2 = 1

\* readAll goes on to another frame exactly when the flags are LECROY_DATA_FLAG
MoreFrames(flags) == flags = LECROY_DATA_FLAG

\* lines 202, 189-190, 178-181: data = self.s.recv(8), then __translate
ReadAllHeader ==
    /\ pc = "ra_header"
    /\ IF s # "open"
       THEN /\ Raise(StreamError, << >>)
            /\ UNCHANGED << inbound, flg, alen, short >>
       ELSE \E k \in RecvCounts(HeaderSize) :
            LET data == SubSeq(inbound, 1, k)
            IN  /\ inbound' = SubSeq(inbound, k + 1, Len(inbound))
                /\ short' = IF k < HeaderSize THEN short \cup {"header"} ELSE short
                /\ IF translateOk(data)
                   THEN /\ flg' = translate(data).eofflag
                        /\ alen' = translate(data).datalen
                        /\ pc' = "ra_payload"
                        /\ UNCHANGED result
                   ELSE /\ Raise("struct.error", << >>)
                        /\ UNCHANGED << flg, alen >>
    /\ UNCHANGED << ext, conn, outbound, op, args, ret, sendv, dtstr, datav, printed,
                    frames, partial, pending >>

\* lines 203-206: dtstr += self.s.recv(lnt).decode('ascii'), then the test of flg
ReadAllPayload ==
    /\ pc = "ra_payload"
    /\ \E k \in RecvCounts(alen) :
        LET data == SubSeq(inbound, 1, k)
        IN  /\ inbound' = SubSeq(inbound, k + 1, Len(inbound))
            /\ short' = IF k < alen THEN short \cup {"payload"} ELSE short
            /\ IF ~IsAscii(data)
               THEN /\ Raise("UnicodeDecodeError", << >>)
                    /\ UNCHANGED << dtstr, pending, inspected >>
               ELSE /\ dtstr' = dtstr \o data
                    /\ IF MoreFrames(flg)
                       THEN /\ pc' = "ra_header"
                            /\ UNCHANGED << result, pending, inspected >>
                       ELSE /\ ReadAllReturns(flg, dtstr')
                            /\ pending' = pending - AnswerRead(flg)
    /\ UNCHANGED << hdr, exact, word_values, instr, calls, dropped, code, conn, outbound,
                    op, args, ret, sendv, flg, alen, datav, printed, frames, partial >>

\* a caller's readAll()
CallReadAll ==
    /\ pc = "idle"
    /\ op' = "readAll"
    /\ pc' = "ra_header"
    /\ dtstr' = << >>
    /\ code' = NoResult
    /\ UNCHANGED << hdr, exact, cal, instr, calls, dropped, args, conn, outbound,
                    inbound, ret, sendv, flg, alen, datav, result,
                    printed, hist >>

NextRead ==
    \/ \E ok \in BOOLEAN : connect(ok)
    \/ CallReadAll
    \/ InstrumentSendsText
    \/ ReadAllHeader
    \/ ReadAllPayload

SpecRead == Init /\ [][NextRead]_vars

\* readAll on a stream that hands over every recv in full, with a client
\* that goes on whenever its recv can return: the two recv calls of lines
\* 202-203 return once the stream holds the bytes they ask for
SpecReadFair ==
    /\ InitExact /\ [][NextRead]_vars
    /\ WF_vars(ReadAllHeader) /\ WF_vars(ReadAllPayload)


(***************************************************************************)
(* The samples: struct.unpack('<{}h'.format(len(dta)//2), dta) and         *)
(* struct.iter_unpack("b", dta), which yields 1-tuples.                    *)
(***************************************************************************)
Signed16(u) == IF u >= 32768 THEN u - 65536 ELSE u

Signed8(u) == IF u >= 128 THEN u - 256 ELSE u

\* unpack takes exactly 2 * (len(dta) // 2) bytes
UnpackWordsOk(bytes) == Len(bytes) = 2 * (Len(bytes) \div 2)

UnpackWords(bytes) ==
    [i \in 1..(Len(bytes) \div 2) |-> Signed16(bytes[2 * i - 1] + 256 * bytes[2 * i])]

UnpackBytes(bytes) == [i \in 1..Len(bytes) |-> << Signed8(bytes[i]) >>]

(***************************************************************************)
(* The instrument's answer to a waveform query: the preamble, two frames   *)
(* of 8 + 11 bytes (the echo of the query, then the block prefix); data    *)
(* frames with the flags LECROY_DATA_FLAG; one frame with other flags that *)
(* ends the answer.                                                        *)
(***************************************************************************)
\* the 9 digits of n, zeros on the left
Pad9(n) == [i \in 1..9 |-> 48 + ((n \div (10 ^ (9 - i))) % 10)]

\* "C1:WF DAT1,"
WaveEcho(ch, bl) == ch \o << 58, 87, 70, 32 >> \o bl \o << 44 >>

\* what stands before the digits: "#9", or "XX"
Markers == {BlockMarker, << 88, 88 >>}

\* the byte counts the prefix declares
DeclaredCounts == {0, 2, 3, 4, 10}

\* the payloads of the data frames: none, half a sample, one sample (-2)
DataPayloads == {<< >>, << 1 >>, << 254, 255 >>}

\* the frame that ends the answer: EOI, DATA | EOI or DATA | SRQ, with "\n",
\* "A" or "B\n"
EndFlags == {1, 129, 136}

EndPayloads == {<< 10 >>, << 65 >>, << 66, 10 >>}

\* the frames of the answer after the two of the preamble
AfterPreamble == SubSeq(frames, 3, Len(frames))

AnswerEnded == \E i \in 3..Len(frames) : frames[i].flags # LECROY_DATA_FLAG

InstrumentSendsWave ==
    /\ op \in {"getDataBytes", "getDataWords"}
    /\ Blocked
    /\ \/ /\ frames = << >>
          /\ \E mk \in Markers, n \in DeclaredCounts :
              LET f1 == [flags |-> LECROY_DATA_FLAG, payload |-> WaveEcho(channel, block)]
                  f2 == [flags |-> LECROY_DATA_FLAG, payload |-> mk \o Pad9(n)]
              IN  /\ frames' = << f1, f2 >>
                  /\ inbound' = inbound \o WireFrame(f1) \o WireFrame(f2)
       \/ /\ Len(frames) >= 2
          /\ ~AnswerEnded
          /\ Len(frames) < 2 + MaxDataFrames
          /\ \E pl \in DataPayloads :
              LET f == [flags |-> LECROY_DATA_FLAG, payload |-> pl]
              IN  /\ frames' = Append(frames, f)
                  /\ inbound' = inbound \o WireFrame(f)
       \/ /\ Len(frames) >= 2
          /\ ~AnswerEnded
          /\ \E fl \in EndFlags, pl \in EndPayloads :
              LET f == [flags |-> fl, payload |-> pl]
              IN  /\ frames' = Append(frames, f)
                  /\ inbound' = inbound \o WireFrame(f)
    /\ UNCHANGED << ext, conn, outbound, op, args, pc, ret, sendv, readv, datav, result,
                    printed, short, partial, pending >>

(***************************************************************************)
(* getDataBytes and getDataWords.  Both send their commands, receive the   *)
(* preamble in one recv(38) and then run the same loop: a header; for the  *)
(* flags LECROY_DATA_FLAG the payload, received in a loop of its own until *)
(* it is complete, is added to dta; for other flags one recv of the        *)
(* payload, a line printed unless it is b'\n', and the loop ends.          *)
(***************************************************************************)
CallGetDataBytes(ch, bl) ==
    /\ pc = "idle"
    /\ op' = "getDataBytes"
    /\ channel' = ch
    /\ block' = bl
    /\ message' = CmdFormatByte
    /\ pc' = "send_head"
    /\ ret' = "gd_wf"
    /\ code' = NoResult
    /\ UNCHANGED << hdr, exact, cal, instr, calls, dropped, conn, outbound, inbound,
                    byteindx, readv, datav, result,
                    printed, hist >>

CallGetDataWords(ch, bl) ==
    /\ pc = "idle"
    /\ op' = "getDataWords"
    /\ channel' = ch
    /\ block' = bl
    /\ message' = CmdFormatWord
    /\ pc' = "send_head"
    /\ ret' = "gd_wf"
    /\ code' = NoResult
    /\ UNCHANGED << hdr, exact, cal, instr, calls, dropped, conn, outbound, inbound,
                    byteindx, readv, datav, result,
                    printed, hist >>

\* where getDataWords and getDataBytes go on after the waveform query
AfterWaveform(o) == IF o = "getDataBytes" THEN "gd_preamble" ELSE "gdw_cord"

\* lines 220 and 254: self.send("{}:WF? {}".format(channel, block))
SendWaveform ==
    /\ pc = "gd_wf"
    /\ message' = CmdWaveform(channel, block)
    /\ pc' = "send_head"
    /\ ret' = AfterWaveform(op)
    /\ UNCHANGED << ext, conn, outbound, inbound, op, args, byteindx, readv, datav,
                    result, printed, hist >>

\* line 255: self.send("CORD LO")
SendOrder ==
    /\ pc = "gdw_cord"
    /\ message' = CmdOrderLow
    /\ pc' = "send_head"
    /\ ret' = "gd_preamble"
    /\ UNCHANGED << ext, conn, outbound, inbound, op, args, byteindx, readv, datav,
                    result, printed, hist >>

\* lines 262-269, on the bytes recv(38) returned: the exception raised, or "ok"
PrefixCheck(head) ==
    IF MarkerMissing(head) THEN "RuntimeError: incorrectly returned header"
    ELSE IF ~IsAscii(PySliceFrom(head, -9)) THEN "UnicodeDecodeError"
    ELSE IF ~IntOk(CountText(head)) THEN "ValueError"
    ELSE IF OddCount(IntValue(CountText(head)))
         THEN "RuntimeError: odd number of bytes expected"
    ELSE "ok"

\* lines 221 and 260-272
DataPreamble ==
    /\ pc = "gd_preamble"
    /\ \E k \in RecvCounts(PreambleSize) :
        LET data == SubSeq(inbound, 1, k)
        IN  /\ inbound' = SubSeq(inbound, k + 1, Len(inbound))
            /\ short' = IF k < PreambleSize THEN short \cup {"preamble"} ELSE short
            /\ rethead' = data
            /\ dta' = << >>
            /\ IF op = "getDataBytes"
               THEN /\ pc' = "gd_header"
                    /\ UNCHANGED << exp_bytes, result >>
               ELSE IF PrefixCheck(data) # "ok"
               THEN /\ Raise(PrefixCheck(data), << >>)
                    /\ UNCHANGED exp_bytes
               ELSE /\ exp_bytes' = IntValue(CountText(data))
                    /\ pc' = "gd_header"
                    /\ UNCHANGED result
    /\ UNCHANGED << ext, conn, outbound, op, args, ret, sendv, readv, dta1, printed,
                    frames, partial, pending >>

\* lines 224-226 and 274-276, and the test of the inner loop for an empty payload
DataHeader ==
    /\ pc = "gd_header"
    /\ \E k \in RecvCounts(HeaderSize) :
        LET data == SubSeq(inbound, 1, k)
        IN  /\ inbound' = SubSeq(inbound, k + 1, Len(inbound))
            /\ short' = IF k < HeaderSize THEN short \cup {"header"} ELSE short
            /\ dta1' = << >>
            /\ IF translateOk(data)
               THEN /\ flg' = translate(data).eofflag
                    /\ alen' = translate(data).datalen
                    /\ pc' = IF ~MoreFrames(flg') THEN "gd_end"
                             ELSE IF 0 < alen' THEN "gd_data"
                             ELSE "gd_header"
                    /\ UNCHANGED result
               ELSE /\ Raise("struct.error", << >>)
                    /\ UNCHANGED << flg, alen >>
    /\ UNCHANGED << ext, conn, outbound, op, args, ret, sendv, dtstr, rethead, exp_bytes,
                    dta, printed, frames, partial, pending >>

\* a variant of Accumulate that keeps the last payload only (dta = dta1)
AccumulateLast(acc, chunk) == chunk

\* line 286: dta += dta1
Accumulate(acc, chunk) == acc \o chunk

\* lines 284-286: one turn of the inner loop, and dta += dta1 when it ends
DataChunk ==
    /\ pc = "gd_data"
    /\ \E k \in RecvCounts(alen - Len(dta1)) :
        LET data == SubSeq(inbound, 1, k)
        IN  /\ inbound' = SubSeq(inbound, k + 1, Len(inbound))
            /\ short' = IF k < alen - Len(dta1) THEN short \cup {"data"} ELSE short
            /\ dta1' = dta1 \o data
            /\ IF Len(dta1') < alen
               THEN UNCHANGED << pc, dta >>
               ELSE /\ dta' = Accumulate(dta, dta1')
                    /\ pc' = "gd_header"
    /\ UNCHANGED << ext, conn, outbound, op, args, ret, sendv, readv, rethead, exp_bytes,
                    result, printed, frames, partial, pending >>

\* a variant of NotNewline that takes every last payload for a newline
NotNewlineNever(en) == FALSE

\* the tests of lines 228 and 280
NotNewline(en) == en # << 10 >>

\* a variant of LengthDiffers that finds too few bytes only
LengthShort(got, expected) == got < expected

\* the test of line 290
LengthDiffers(got, expected) == got # expected

\* lines 288-293: how getDataWords ends once the loop is left
WordsResult(bytes, expected) ==
    IF LengthDiffers(Len(bytes), expected)
    THEN Raised("AssertionError", << expected, Len(bytes) >>)
    ELSE IF ~UnpackWordsOk(bytes) THEN Raised("struct.error", << >>)
    ELSE Returned(0, UnpackWords(bytes))

\* lines 236-237: how getDataBytes ends
BytesResult(bytes) == Returned(0, UnpackBytes(bytes))

\* a variant of SampleBytes that takes the last payload for samples too
SampleBytesWithEnd(acc, en) == acc \o en

\* the bytes the samples are unpacked from once the loop is left (lines 236
\* and 290-293): dta; en, the payload of the frame that ended the loop, is
\* compared with b'\n' and used no further
SampleBytes(acc, en) == acc

\* lines 227-230 and 278-282, then the end of the operation
DataEnd ==
    /\ pc = "gd_end"
    /\ \E k \in RecvCounts(alen) :
        LET en == SubSeq(inbound, 1, k)
        IN  /\ inbound' = SubSeq(inbound, k + 1, Len(inbound))
            /\ short' = IF k < alen THEN short \cup {"end"} ELSE short
            /\ printed' = IF NotNewline(en)
                          THEN printed \cup {"unexpected return, instead newline got"}
                          ELSE printed
            /\ LET r == IF op = "getDataBytes" THEN BytesResult(SampleBytes(dta, en))
                        ELSE WordsResult(SampleBytes(dta, en), exp_bytes)
               IN  IF op = "getVertFloats" /\ r.kind = "returned"
                   THEN \* line 306: word_values = np.array(self.getDataWords(...))
                        /\ word_values' = r.data
                        /\ pc' = "inspect"
                        /\ UNCHANGED result
                   ELSE /\ pc' = "done"
                        /\ result' = r
                        /\ UNCHANGED word_values
            /\ pending' = pending - AnswerRead(flg)
    /\ UNCHANGED << hdr, exact, inspected, instr, calls, dropped, code, conn, outbound, op,
                    args, ret, sendv, readv, datav, frames, partial >>

NextData ==
    \/ \E ok \in BOOLEAN : connect(ok)
    \/ \E ch \in Channels, bl \in Blocks : CallGetDataBytes(ch, bl)
    \/ \E ch \in Channels, bl \in Blocks : CallGetDataWords(ch, bl)
    \/ SendHeader
    \/ SendBody
    \/ SendWaveform
    \/ SendOrder
    \/ InstrumentSendsWave
    \/ DataPreamble
    \/ DataHeader
    \/ DataChunk
    \/ DataEnd

SpecData == Init /\ [][NextData]_vars

(***************************************************************************)
(* The session: every operation may be called, once, in whatever state     *)
(* connect and disconnect have left the session.                           *)
(***************************************************************************)
Next ==
    \/ \E ok \in BOOLEAN : connect(ok)
    \/ disconnect
    \/ \E m \in Messages : CallSend(m)
    \/ CallReadAll
    \/ \E ch \in Channels, bl \in Blocks : CallGetDataBytes(ch, bl)
    \/ \E ch \in Channels, bl \in Blocks : CallGetDataWords(ch, bl)
    \/ SendHeader
    \/ SendBody
    \/ InstrumentSendsText
    \/ ReadAllHeader
    \/ ReadAllPayload
    \/ SendWaveform
    \/ SendOrder
    \/ InstrumentSendsWave
    \/ DataPreamble
    \/ DataHeader
    \/ DataChunk
    \/ DataEnd

Spec == Init /\ [][Next]_vars

(***************************************************************************)
(* A session: operations called one after the other on one connection.     *)
(* The instrument answers the queries in the order they were written, one  *)
(* whole answer at a time, when the client waits in a recv.  An answer to  *)
(* a waveform query is the preamble, data frames and the frame that ends   *)
(* it; an answer to any other query is a text, in one frame or in two.     *)
(* The caller has one request in flight at a time.                         *)
(* When the caller has taken the result of an operation, what the          *)
(* operation left behind is the connection, the unread bytes and the       *)
(* unanswered queries; its locals and the history start anew.              *)
(***************************************************************************)
\* the operations of a session
MaxCalls == 2

\* the messages of a stand-alone send: "A" (a command) and "?" (a query)
SessionMessages == {<< 65 >>, << 63 >>}

\* "WF?" and "INSPECT?" in a query
IsWaveQuery(q) == Find(q, << 87, 70, 63 >>) # 0

IsInspectQuery(q) == Find(q, << 73, 78, 83, 80, 69, 67, 84, 63 >>) # 0

\* the channel, the block and the field a query names
QueryChannel(q) == SplitFirst(q, Colon)

QueryBlock(q) == SplitLast(q, << 32 >>)

QueryField(q) == SplitFirst(SubSeq(q, Find(q, << 34 >>) + 1, Len(q)), << 34 >>)

\* the byte counts a prefix declares, and the data frames that follow it:
\* the samples 100 and -100 in one frame or in two, or the sample -2 alone
WaveCounts == {4, 3}

WaveData == { << << 100, 0, 156, 255 >> >>,
              << << 100, 0 >>, << 156, 255 >> >>,
              << << 254, 255 >> >> }

\* the numbers of the answers, "0.5", "2.0", "-1.5e+00", and "x", no number
FloatTexts == { << 48, 46, 53 >>, << 50, 46, 48 >>,
                << 45, 49, 46, 53, 101, 43, 48, 48 >>, << 120 >> }

\* "Unit Name = V"
UnitTexts == { UnitMarker \o << 86 >> }

\* the answers to a query that is neither: "A", "B\n"
TextAnswers == { << 65 >>, << 66, 10 >> }

\* where a text is cut into two frames (not cut when the text is no longer)
SplitPoints == {0, 1, 12}

\* 'C1:INSP "NAME : value "\n'
InspectAnswer(q, value) ==
    QueryChannel(q) \o
        << 58, 73, 78, 83, 80, 32, 34 >>
    \o QueryField(q) \o << 32, 58, 32 >> \o value \o << 32, 34, 10 >>

\* the frames of a text answer cut at k: DATA then DATA | EOI
TextFrames(text, k, n) ==
    IF 0 < k /\ k < Len(text)
    THEN << [flags |-> LECROY_DATA_FLAG, payload |-> SubSeq(text, 1, k), query |-> n],
            [flags |-> LECROY_DATA_FLAG + LECROY_EOI_FLAG,
             payload |-> SubSeq(text, k + 1, Len(text)), query |-> n] >>
    ELSE << [flags |-> LECROY_DATA_FLAG + LECROY_EOI_FLAG, payload |-> text,
             query |-> n] >>

\* the frames of a waveform answer
WaveFrames(q, mk, count, data, n) ==
    << [flags |-> LECROY_DATA_FLAG,
        payload |-> WaveEcho(QueryChannel(q), QueryBlock(q)), query |-> n],
       [flags |-> LECROY_DATA_FLAG, payload |-> mk \o Pad9(count), query |-> n] >>
    \o [i \in 1..Len(data) |->
            [flags |-> LECROY_DATA_FLAG, payload |-> data[i], query |-> n]]
    \o << [flags |-> LECROY_EOI_FLAG, payload |-> << 10 >>, query |-> n] >>

\* the answers the instrument may give to query q, the n-th
Answers(q, n) ==
    IF IsWaveQuery(q)
    THEN {WaveFrames(q, mk, c, d, n) : mk \in Markers, c \in WaveCounts, d \in WaveData}
    ELSE IF IsInspectQuery(q)
    THEN {TextFrames(InspectAnswer(q, v), k, n) :
            v \in (IF QueryField(q) \in {VERTUNIT, HORUNIT} THEN UnitTexts
                   ELSE FloatTexts),
            k \in SplitPoints}
    ELSE {TextFrames(a, k, n) : a \in TextAnswers, k \in SplitPoints}

\* the bytes of frames fs on the wire
RECURSIVE Wire(_)
Wire(fs) == IF fs = << >> THEN << >> ELSE WireFrame(fs[1]) \o Wire(Tail(fs))

InstrumentAnswers ==
    /\ Blocked
    /\ asked # << >>
    /\ \E fs \in Answers(asked[1], nasked - Len(asked) + 1) :
        /\ frames' = frames \o fs
        /\ inbound' = inbound \o Wire(fs)
    /\ asked' = Tail(asked)
    /\ UNCHANGED << hdr, exact, cal, nasked, calls, dropped, code, conn, outbound, op, args,
                    pc, ret, sendv, readv, datav, result, printed, short, partial,
                    pending >>

\* the caller takes the result of the operation that has ended
Return ==
    /\ pc = "done"
    /\ returns + 1 < MaxCalls
    /\ returns' = returns + 1
    /\ clean' = (inbound = << >> /\ asked = << >>)
    /\ earlier' = IF op \in Inspectors /\ result.kind = "returned"
                   THEN << inspected[2] >> ELSE << >>
    /\ nasked' = Len(asked)
    /\ op' = "idle"
    /\ pc' = "idle"
    /\ ret' = "done"
    /\ outbound' = << >>
    /\ channel' = << >>
    /\ block' = << >>
    /\ message' = << >>
    /\ byteindx' = 0
    /\ flg' = 0
    /\ alen' = 0
    /\ dtstr' = << >>
    /\ rethead' = << >>
    /\ exp_bytes' = 0
    /\ dta' = << >>
    /\ dta1' = << >>
    /\ word_values' = << >>
    /\ inspected' = << >>
    /\ result' = NoResult
    /\ printed' = {}
    /\ frames' = << >>
    /\ short' = {}
    /\ partial' = {}
    /\ UNCHANGED << conn, inbound, pending, asked, hdr, exact, dropped, code >>

\* the caller keeps to one request at a time: it calls an operation that
\* writes a query only when the instrument has answered every query before
OneRequest(m) == IsQuery(m) => asked = << >>

NextSession ==
    \/ \E ok \in BOOLEAN : connect(ok)
    \/ disconnect
    \/ \E m \in SessionMessages : OneRequest(m) /\ CallSend(m)
    \/ CallReadAll
    \/ \E ch \in Channels, bl \in Blocks :
            OneRequest(CmdWaveform(ch, bl)) /\ CallGetDataBytes(ch, bl)
    \/ \E ch \in Channels, bl \in Blocks :
            OneRequest(CmdWaveform(ch, bl)) /\ CallGetDataWords(ch, bl)
    \/ \E ch \in Channels, bl \in Blocks :
            OneRequest(CmdWaveform(ch, bl)) /\ CallGetVertFloats(ch, bl)
    \/ \E ch \in Channels : OneRequest(CmdInspect(ch, HORUNIT)) /\ CallGetHorData(ch)
    \/ SendHeader
    \/ SendBody
    \/ SendWaveform
    \/ SendOrder
    \/ SendInspect
    \/ InnerReadAll
    \/ ReadAllHeader
    \/ ReadAllPayload
    \/ DataPreamble
    \/ DataHeader
    \/ DataChunk
    \/ DataEnd
    \/ InstrumentAnswers
    \/ Return

SpecSession == InitExact /\ [][NextSession]_vars

(***************************************************************************)
(* The header codec on its own.  A flags byte and a length are given; the  *)
(* header is built as send builds it (lines 103-105) and then translated   *)
(* as __getHeader translates the 8 bytes it receives (lines 178-181).  The *)
(* length is given as the image of a 32-bit value, so that it ranges up to *)
(* 2^32 - 1; the three reserved bytes may be replaced on the way.          *)
(***************************************************************************)
\* every flags byte
FlagBytes == 0..255

\* the bytes a length is made of: the ends and the middle of a byte's range
LengthBytes == {0, 1, 128, 255}

Images == {<< a, b, c, d >> : a \in LengthBytes, b \in LengthBytes,
                             c \in LengthBytes, d \in LengthBytes}

\* what the reserved bytes of a received header may be
ReservedBytes == {<< 1, 0, 0 >>, << 0, 0, 0 >>, << 255, 7, 128 >>}

InitHeader ==
    /\ Start
    /\ exact = FALSE
    /\ \E f \in FlagBytes, n \in Images :
        hdr = [stage |-> "given", flags |-> f, msglen |-> n]

\* lines 103-105: head = LECROY_TCP_HEADER(flags, (1, 0, 0), socket.htonl(msglen))
BuildHeader ==
    /\ hdr.stage = "given"
    /\ hdr' = [stage |-> "built", flags |-> hdr.flags, msglen |-> hdr.msglen,
               head |-> HeaderStruct(hdr.flags, htonl(hdr.msglen))]
    /\ UNCHANGED << conn, outbound, inbound, op, args, pc, ret, sendv, readv, datav,
                    result, printed, hist, exact, cal, instr, calls, dropped, code >>

\* lines 178-181 on the header built, whatever its reserved bytes have become
TranslateHeader ==
    /\ hdr.stage = "built"
    /\ \E r \in ReservedBytes :
        LET data == << hdr.head[1] >> \o r \o SubSeq(hdr.head, 5, 8)
        IN  hdr' = [stage |-> "translated", flags |-> hdr.flags, msglen |-> hdr.msglen,
                    head |-> hdr.head, reserved |-> r,
                    eofflag |-> unpack(data)[1], datalen |-> datalenImage(data)]
    /\ UNCHANGED << conn, outbound, inbound, op, args, pc, ret, sendv, readv, datav,
                    result, printed, hist, exact, cal, instr, calls, dropped, code >>

NextHeader ==
    \/ BuildHeader
    \/ TranslateHeader

SpecHeader == InitHeader /\ [][NextHeader]_vars

(***************************************************************************)
(* What the instrument has sent, for the statements below.                 *)
(***************************************************************************)
\* the payloads of frames fs, one after the other
RECURSIVE Payloads(_)
Payloads(fs) ==
    IF fs = << >> THEN << >> ELSE fs[1].payload \o Payloads(Tail(fs))

AllAscii(fs) == \A i \in DOMAIN fs : IsAscii(fs[i].payload)

LastFrame == frames[Len(frames)]

\* every frame but the last has the flags LECROY_DATA_FLAG, the last has not
ContinuedToLast ==
    /\ frames # << >>
    /\ \A i \in 1..(Len(frames) - 1) : frames[i].flags = LECROY_DATA_FLAG
    /\ LastFrame.flags # LECROY_DATA_FLAG

\* the block prefix the instrument sent, and the number its nine digits denote
SentPrefix == frames[2].payload

SentMarker == SubSeq(SentPrefix, 1, 2)

SentDigits == SubSeq(SentPrefix, 3, 11)

DigitsValue(d) ==
    LET v[i \in 0..Len(d)] == IF i = 0 THEN 0 ELSE 10 * v[i - 1] + (d[i] - 48)
    IN  v[Len(d)]

Declared == DigitsValue(SentDigits)

\* the data frames the instrument sent and the bytes of their payloads
DataFrames == SelectSeq(AfterPreamble, LAMBDA f : f.flags = LECROY_DATA_FLAG)

DataSent == Payloads(DataFrames)

\* the little-endian signed 16-bit samples of a byte sequence of even length
SamplesOf(bytes) ==
    [i \in 1..(Len(bytes) \div 2) |->
        IF bytes[2 * i] >= 128
        THEN bytes[2 * i - 1] + 256 * bytes[2 * i] - 65536
        ELSE bytes[2 * i - 1] + 256 * bytes[2 * i]]

\* the recv calls that receive a header, the preamble or the payload of the
\* frame that ends the answer returned all the bytes they asked for
ExactFrameReads == short \cap {"header", "preamble", "end", "payload"} = {}

\* the positions at which the operation is about to call self.s.send or recv
StreamLabels == RecvLabels \cup {"send_head", "send_body"}

\* the frames sent in answer to the n-th query and the text they carry
AnswerFrames(n) == SelectSeq(frames, LAMBDA f : f.query = n)

AnswerTo(n) == Payloads(AnswerFrames(n))

\* the data bytes of the waveform answer to the n-th query: the payloads
\* between the two frames of the preamble and the frame that ends it
WaveBytes(n) == Payloads(SubSeq(AnswerFrames(n), 3, Len(AnswerFrames(n)) - 1))

\* the value the instrument has put into its answer to the n-th query, an
\* INSPECT? of the named field: what stands between 'C1:INSP "NAME : ' and
\* ' "\n'
SentValue(n, name) ==
    SubSeq(AnswerTo(n), Len(channel) + 7 + Len(name) + 3 + 1, Len(AnswerTo(n)) - 3)

\* the numbers the texts "0.5", "2.0" and "-1.5e+00" denote, in tenths
TenthsDenoted(text) ==
    IF text = << 48, 46, 53 >> THEN 5
    ELSE IF text = << 50, 46, 48 >> THEN 20
    ELSE -15

\* a float of the model in tenths
Tenths(v) == v.m * 10 ^ (v.e + 1)

(***************************************************************************)
(* The statements.                                                         *)
(***************************************************************************)

\* C1 (SpecRead).  Reassembly: when every recv of readAll returns the bytes
\* it asked for and the payloads are ASCII, readAll ends exactly at the
\* first frame whose flags are not the continuation flag LECROY_DATA_FLAG:
\* every frame received before it has that flag; readAll returns the flags
\* of that last frame and the payloads of all the frames, the last one's
\* included, in the order they were sent.
ReassemblyCorrect ==
    (op = "readAll" /\ pc = "done" /\ frames # << >> /\ ExactFrameReads
        /\ AllAscii(frames))
    => /\ ContinuedToLast
       /\ result = Returned(LastFrame.flags, Payloads(frames))

\* C1 witness: readAll has returned the text of two frames, both with a payload
ReassemblyWitness ==
    /\ op = "readAll" /\ pc = "done" /\ result.kind = "returned"
    /\ ExactFrameReads
    /\ Len(frames) = 2
    /\ frames[1].payload # << >> /\ frames[2].payload # << >>
    /\ frames[1].payload # frames[2].payload

\* C3 (SpecRead).  Exact reads: however the stream splits its bytes over
\* the recv calls, readAll ends as it does when every recv returns all the
\* bytes asked for: with the flags of the last frame and all the payloads.
ExactReadsWhateverTheSplit ==
    (op = "readAll" /\ pc = "done" /\ frames # << >> /\ AllAscii(frames))
    => /\ ContinuedToLast
       /\ result = Returned(LastFrame.flags, Payloads(frames))

\* C4 (SpecSend).  When send returns, the stream holds the 8 bytes of the
\* header (the flags DATA | EOI, the reserved bytes 1, 0, 0, the length of
\* the payload as a big-endian 32-bit number) and then the bytes of the
\* message, each once and in order, whatever part of the offered bytes each
\* write accepted; and at every moment of a send the stream holds the first
\* bytes of that frame, none twice and none out of order.
FrameWellFormed ==
    LET frame == << 129, 1, 0, 0 >> \o BigEndian32(Len(message)) \o message
    IN  /\ (op = "send" /\ pc = "done" /\ result.kind = "returned")
            => outbound = frame
        /\ op = "send"
            => /\ Len(outbound) <= Len(frame)
               /\ outbound = SubSeq(frame, 1, Len(outbound))

\* C4 witness: send has returned after a write that accepted a part only
FrameWitness ==
    /\ op = "send" /\ pc = "done" /\ result.kind = "returned"
    /\ "message" \in partial
    /\ Len(message) = MaxMsgLen

NoPipelining == [][Len(outbound') > Len(outbound) => pending = 0]_vars

\* C6 (SpecData).  Length mismatch: getDataWords returns samples only when
\* the data frames carried as many bytes as the prefix declares; when it
\* has received the frame that ends the answer and the two counts differ,
\* it raises the AssertionError that holds the declared count and the
\* received count.
LengthMismatchDetected ==
    (op = "getDataWords" /\ pc = "done" /\ ExactFrameReads)
    => /\ result.kind = "returned" => Len(DataSent) = Declared
       /\ (AnswerEnded /\ Len(DataSent) # Declared)
            => result = Raised("AssertionError", << Declared, Len(DataSent) >>)

\* C6 witness: 2 bytes declared and 4 received, and the error says so
LengthMismatchWitness ==
    /\ op = "getDataWords" /\ pc = "done" /\ ExactFrameReads /\ AnswerEnded
    /\ Declared = 2 /\ Len(DataSent) = 4
    /\ result = Raised("AssertionError", << 2, 4 >>)

\* C7 (SpecData).  Malformed prefix: once getDataWords has received the 38
\* bytes of the preamble in one recv, if the two bytes before the nine
\* digits are not "#9" or the declared count is odd, the call has ended
\* with the RuntimeError of that test, and the instrument was never asked
\* for a byte beyond the preamble: no header and no payload of a data frame
\* was read.
PrefixRejected ==
    (op = "getDataWords" /\ Len(frames) >= 2 /\ "preamble" \notin short
        /\ pc # "gd_preamble"
        /\ (SentMarker # BlockMarker \/ Declared % 2 # 0))
    => /\ pc = "done"
       /\ result.kind = IF SentMarker # BlockMarker
                        THEN "RuntimeError: incorrectly returned header"
                        ELSE "RuntimeError: odd number of bytes expected"
       /\ Len(frames) = 2
       /\ inbound = << >>
       /\ dta = << >>

\* C7 witness: the marker is "#9" and 3 bytes are declared
PrefixRejectedWitness ==
    /\ op = "getDataWords" /\ pc = "done" /\ "preamble" \notin short
    /\ Len(frames) = 2 /\ SentMarker = BlockMarker /\ Declared = 3
    /\ result.kind = "RuntimeError: odd number of bytes expected"

\* C8 (SpecData).  Count parsing: once getDataWords has received the
\* preamble in one recv and the marker is "#9", the nine digits are parsed
\* as the number they denote: the parse raises no ValueError, all zeros
\* included, and unless the count is odd exp_bytes is that number.
CountParsed ==
    (op = "getDataWords" /\ Len(frames) >= 2 /\ "preamble" \notin short
        /\ pc # "gd_preamble" /\ SentMarker = BlockMarker)
    => /\ result.kind # "ValueError"
       /\ Declared % 2 = 0 => exp_bytes = Declared

\* C9 (SpecData).  Trailing byte: when getDataBytes or getDataWords has
\* received the frame that ends the answer and its payload is one byte,
\* the call ends as the data and the prefix alone decide (the samples, or
\* the length mismatch), and it has printed the line about the unexpected
\* byte exactly when the byte is not "\n".
TrailingByteTolerated ==
    (op \in {"getDataBytes", "getDataWords"} /\ pc = "done" /\ ExactFrameReads
        /\ AnswerEnded /\ Len(LastFrame.payload) = 1)
    => /\ ("unexpected return, instead newline got" \in printed)
            <=> (LastFrame.payload # << 10 >>)
       /\ op = "getDataWords" =>
            result = IF Len(DataSent) = Declared
                     THEN Returned(0, SamplesOf(DataSent))
                     ELSE Raised("AssertionError", << Declared, Len(DataSent) >>)
       /\ op = "getDataBytes" =>
            result = Returned(0, [i \in 1..Len(DataSent) |->
                        << IF DataSent[i] >= 128 THEN DataSent[i] - 256
                           ELSE DataSent[i] >>])

\* C9 witness: the last payload was "A" and getDataWords has returned a sample
TrailingByteWitness ==
    /\ op = "getDataWords" /\ pc = "done" /\ ExactFrameReads /\ AnswerEnded
    /\ LastFrame.payload = << 65 >>
    /\ "unexpected return, instead newline got" \in printed
    /\ result = Returned(0, << -2 >>)

\* C10 (Spec).  Guarded frame operations: an operation is at a call of
\* self.s.send or self.s.recv on a socket the session has created only
\* while the session is Connected.
GuardedByConnection == (pc \in StreamLabels /\ s # "none") => CONNECTED

\* C11 (SpecHeader).  Header round trip: for every flags byte and every
\* length from 0 to 2^32 - 1, translating the 8 bytes built from them gives
\* back that flags byte and that length, whatever the reserved bytes of the
\* header are when it is translated; the length stands in bytes 4-7 of the
\* header, most significant byte first.
HeaderRoundTrip ==
    hdr.stage = "translated"
    => /\ hdr.eofflag = hdr.flags
       /\ hdr.datalen = hdr.msglen
       /\ hdr.msglen[4] < 128 => NativeUInt(hdr.datalen) = NativeUInt(hdr.msglen)
       /\ SubSeq(hdr.head, 5, 8)
            = << hdr.msglen[4], hdr.msglen[3], hdr.msglen[2], hdr.msglen[1] >>

\* C11 witness: the flags 0xFF and the length 0xFF800100 (above 2^31) have
\* come back from a header whose reserved bytes were not 1, 0, 0
HeaderRoundTripWitness ==
    /\ hdr.stage = "translated"
    /\ hdr.flags = 255
    /\ hdr.msglen = << 0, 1, 128, 255 >>
    /\ hdr.reserved = << 255, 7, 128 >>
    /\ hdr.eofflag = 255 /\ hdr.datalen = << 0, 1, 128, 255 >>

\* C12 (SpecSession).  Calibration: when getVertFloats, called on a stream
\* with nothing left unread and no query unanswered, returns, it returns one
\* value for each raw sample of the waveform answer, in the order of the
\* samples, and value i is VERTICAL_GAIN * raw[i] - VERTICAL_OFFSET for the
\* gain and the offset the instrument sent in answer to the queries of this
\* call; the unit is the text after "Unit Name = ".
CalibrationArithmetic ==
    (op = "getVertFloats" /\ pc = "done" /\ result.kind = "returned" /\ clean)
    => LET raw == SamplesOf(WaveBytes(1))
           offset == TenthsDenoted(SentValue(2, VERTICAL_OFFSET))
           gain == TenthsDenoted(SentValue(3, VERTICAL_GAIN))
           values == result.data[2]
       IN  /\ Len(values) = Len(raw)
           /\ \A i \in 1..Len(raw) : 10 * Tenths(values[i]) = gain * (10 * raw[i]) - 10 * offset
           /\ result.data[1] = << 86, 32 >>

\* C12 witness: the raw samples 100 and -100 came in two frames, the gain
\* 0.5 and the offset 2.0 in two frames each, and 48.0 and -52.0 are returned
CalibrationWitness ==
    /\ op = "getVertFloats" /\ pc = "done" /\ result.kind = "returned" /\ clean
    /\ word_values = << 100, -100 >>
    /\ Len(AnswerFrames(1)) = 5 /\ Len(AnswerFrames(2)) = 2 /\ Len(AnswerFrames(3)) = 2
    /\ SentValue(2, VERTICAL_OFFSET) = << 50, 46, 48 >>
    /\ SentValue(3, VERTICAL_GAIN) = << 48, 46, 53 >>
    /\ result.data[2] = << [m |-> 48, e |-> 0], [m |-> -52, e |-> 0] >>
    /\ returns = 1

\* the flags have the bit 0x80
HasDataBit(flags) == (flags \div 128) % 2 = 1

\* the frames a loop has received: all of them for readAll, those after the
\* preamble for getDataBytes and getDataWords
LoopFrames == IF op = "readAll" THEN frames ELSE AfterPreamble

ReadAllReturn ==
    /\ pc = "ra_payload"
    /\ pc' \notin {"ra_payload", "ra_header"}
    /\ result'.kind # "UnicodeDecodeError"

\* the step is the receipt of a header by readAll
ReadAllHeaderStep == pc = "ra_header" /\ pc' = "ra_payload"

\* the headers of the frames sent in answer to the n-th query
AnswerHeaders(n) ==
    {SubSeq(WireFrame(AnswerFrames(n)[i]), 1, HeaderSize) : i \in DOMAIN AnswerFrames(n)}

\* C14 (SpecSession).  Responses stay with their request: in a session
\* whose caller has one request in flight at a time, on a stream that hands
\* over every recv in full, a readAll that follows the writing of a query
\* returns the payloads of the frames the instrument sent in answer to that
\* query, and every header it decodes is the header of one of these
\* frames, whatever operations came before and however they ended.
ResponsesStayAssociated ==
    [][/\ (ReadAllReturn /\ nasked > 0) => dtstr' = AnswerTo(nasked)
       /\ (ReadAllHeaderStep /\ nasked > 0)
            => SubSeq(inbound, 1, HeaderSize) \in AnswerHeaders(nasked)]_vars

\* C15 (Spec).  The payload of the ending frame is no sample: when
\* getDataBytes or getDataWords has left its loop, every header and the
\* last payload received by one recv, the bytes it has accumulated are the
\* payloads of the frames received before the frame that ended the loop, in
\* order; the payload of that frame, of whatever length and content, has
\* been taken from the stream and is in neither the accumulated bytes nor
\* the samples returned.  readAll returns the payload of its last frame
\* with the others.
EndPayloadExcluded ==
    /\ (op \in {"getDataBytes", "getDataWords"} /\ pc = "done" /\ ExactFrameReads
            /\ AnswerEnded)
        => /\ dta = Payloads(SubSeq(AfterPreamble, 1, Len(AfterPreamble) - 1))
           /\ inbound = << >>
           /\ op = "getDataBytes" =>
                result = Returned(0, [i \in 1..Len(DataSent) |->
                            << IF DataSent[i] >= 128 THEN DataSent[i] - 256
                               ELSE DataSent[i] >>])
           /\ (op = "getDataWords" /\ result.kind = "returned") =>
                result.data = SamplesOf(DataSent)
           /\ (op = "getDataWords" /\ result.kind # "returned") =>
                result = Raised("AssertionError", << Declared, Len(DataSent) >>)
    /\ (op = "readAll" /\ pc = "done" /\ result.kind = "returned" /\ ExactFrameReads)
        => result.data = Payloads(frames)

\* C15 witness: getDataBytes has returned the three bytes of two data
\* frames; the loop ended at a frame with the two-byte payload "B\n"
EndPayloadWitness ==
    /\ op = "getDataBytes" /\ pc = "done" /\ ExactFrameReads
    /\ Len(frames) = 5
    /\ frames[3].payload = << 1 >> /\ frames[4].payload = << 254, 255 >>
    /\ LastFrame.payload = << 66, 10 >>
    /\ result = Returned(0, << << 1 >>, << -2 >>, << -1 >> >>)
    /\ inbound = << >>

\* a frame with flags other than 0x80 has been delivered to a readAll in
\* progress
EndingFrameDelivered ==
    /\ op = "readAll" /\ pc \in {"ra_header", "ra_payload"}
    /\ \E i \in 1..Len(frames) : frames[i].flags # LECROY_DATA_FLAG

\* a frame without the bit 0x80 has been delivered to a readAll in progress
ClearedBitDelivered ==
    /\ op = "readAll" /\ pc \in {"ra_header", "ra_payload"}
    /\ \E i \in 1..Len(frames) : ~HasDataBit(frames[i].flags)

\* readAll has returned its text
ReadAllReturned == op = "readAll" /\ pc = "done" /\ result.kind = "returned"

ReassemblyWaits ==
    /\ op = "readAll" /\ pc = "ra_header" /\ inbound = << >>
    /\ Len(frames) = MaxFrames
    /\ \A i \in 1..Len(frames) : frames[i].flags = LECROY_DATA_FLAG

\* C17 (SpecSend).  Termination of send: on an open stream whose every
\* write accepts at least one byte, a send of an ASCII message that has
\* ended has returned, with the 8 header bytes and every byte of the message
\* written, whatever parts the writes accepted; and every turn of the write
\* loop leaves fewer bytes of the message to write.
SendCompletes ==
    [][/\ (op' = "send" /\ pc' = "done" /\ pc # "done" /\ s = "open" /\ IsAscii(message))
            => /\ result' = Returned(0, << >>)
               /\ outbound' = HeaderBytes(SendFlags, Len(message)) \o message
       /\ (pc = "send_body" /\ op = "send")
            => Len(message) - byteindx' < Len(message) - byteindx]_vars

\* a message as send puts it on the stream
WireOf(m) == HeaderBytes(SendFlags, Len(m)) \o m

RECURSIVE WireOfAll(_)
WireOfAll(ms) == IF ms = << >> THEN << >> ELSE WireOf(ms[1]) \o WireOfAll(Tail(ms))

\* the fields the two operations are said to ask for, in order
AskedFields ==
    IF op = "getVertFloats" THEN << VERTICAL_OFFSET, VERTICAL_GAIN, VERTUNIT >>
    ELSE << HORUNIT, HORIZ_OFFSET, HORIZ_INTERVAL >>

\* the messages of one call of getVertFloats and of getHorData, in order
VertRequests ==
    << CmdFormatWord, CmdWaveform(channel, block), CmdOrderLow,
       CmdInspect(channel, VERTICAL_OFFSET), CmdInspect(channel, VERTICAL_GAIN),
       CmdInspect(channel, VERTUNIT) >>

HorRequests ==
    << CmdInspect(channel, HORUNIT), CmdInspect(channel, HORIZ_OFFSET),
       CmdInspect(channel, HORIZ_INTERVAL) >>

CallRequests == IF op = "getVertFloats" THEN VertRequests ELSE HorRequests

\* the number of the query that asks for the first field
FirstInspect == IF op = "getVertFloats" THEN 2 ELSE 1

\* a is the beginning of b
StartsWith(b, a) == Len(a) <= Len(b) /\ SubSeq(b, 1, Len(a)) = a

\* C18 (SpecSession).  No caching: in a call of getVertFloats or getHorData
\* that started with nothing unread and nothing unanswered, the bytes
\* written by this call are at every moment a beginning of: the waveform
\* fetch, then INSPECT? VERTICAL_OFFSET, VERTICAL_GAIN, VERTUNIT (for
\* getVertFloats), or INSPECT? HORUNIT, HORIZ_OFFSET, HORIZ_INTERVAL (for
\* getHorData), and all of it when the call returns; when an INSPECT? query
\* is about to be written, the instrument has answered every query before
\* it and every byte of these answers has been read; and the values the
\* call has parsed are those the instrument sent in answer to the queries
\* of this call.
NoCaching ==
    (op \in Inspectors /\ clean /\ pc # "idle")
    => /\ StartsWith(WireOfAll(CallRequests), outbound)
       /\ (pc = "done" /\ result.kind = "returned")
            => /\ outbound = WireOfAll(CallRequests)
               /\ nasked = FirstInspect + 2
       /\ (pc = "send_head" /\ IsInspectQuery(message))
            => /\ asked = << >> /\ inbound = << >>
               /\ outbound = WireOfAll(SubSeq(CallRequests, 1,
                                Len(CallRequests) - 3 + Len(inspected)))
               /\ nasked = FirstInspect - 1 + Len(inspected)
               /\ Len(inspected) > 0 => dtstr = AnswerTo(nasked)
               /\ op = "getVertFloats" => word_values = SamplesOf(WaveBytes(1))
       /\ \A i \in 1..Len(inspected) :
            LET sent == SentValue(FirstInspect - 1 + i, AskedFields[i])
            IN  IF AskedFields[i] \in {VERTUNIT, HORUNIT}
                THEN sent \o << 32 >> = UnitMarker \o inspected[i]
                ELSE Tenths(inspected[i]) = TenthsDenoted(sent)
       /\ (pc = "done" /\ result.kind = "returned" /\ op = "getHorData")
            => result.data = inspected

\* C18 witness: a second call of getHorData has returned the offset 2.0 the
\* instrument sent this time, after a first call that had parsed 0.5
NoCachingWitness ==
    /\ op = "getHorData" /\ pc = "done" /\ result.kind = "returned" /\ clean
    /\ returns = 1
    /\ earlier = << [m |-> 5, e |-> -1] >>
    /\ SentValue(2, HORIZ_OFFSET) = << 50, 46, 48 >>
    /\ result.data[2] = [m |-> 2, e |-> 0]
    /\ outbound = WireOfAll(HorRequests)

\* C19 (Spec).  Redundant open and close change nothing: a connect while
\* CONNECTED returns -2 and leaves the flag and the socket in self.s as they
\* are, no other socket put in its place; a disconnect while not CONNECTED
\* returns -2 and leaves them as they are too.  No open socket is ever left
\* behind, so that at most one stream is open; and CONNECTED is true exactly
\* while self.s is an open stream: it becomes true by a connect that
\* succeeds and by nothing else, false by a disconnect and by nothing else.
RedundantCallsChangeNothing ==
    [][/\ (CONNECTED /\ \E ok \in BOOLEAN : connect(ok))
            => /\ code' = Returned(0, << -2 >>)
               /\ conn' = conn /\ dropped' = dropped
       /\ (~CONNECTED /\ disconnect)
            => /\ code' = Returned(0, << -2 >>)
               /\ conn' = conn /\ dropped' = dropped
       /\ dropped' = 0
       /\ CONNECTED' <=> (s' = "open")
       /\ (~CONNECTED /\ CONNECTED') => connect(TRUE)
       /\ (CONNECTED /\ ~CONNECTED') => disconnect
       /\ (~CONNECTED /\ connect(TRUE)) => CONNECTED'
       /\ disconnect => ~CONNECTED']_vars

\* C19 witness: a connect on an open connection has returned -2 and printed
\* its text; the stream is open as before
RedundantConnectWitness ==
    /\ CONNECTED /\ s = "open" /\ dropped = 0
    /\ code = Returned(0, << -2 >>)
    /\ "Already connected!" \in printed
    /\ pc = "idle"

\* a disconnect on a closed connection has returned -2
RedundantDisconnectReached ==
    /\ ~CONNECTED /\ s = "closed" /\ dropped = 0
    /\ code = Returned(0, << -2 >>)
    /\ pc = "idle"

=============================================================================
